---- MODULE Spec2Model ----
(***************************************************************************)
(* A model of the worm animation core of hans-linger/wormses:              *)
(*   - helpers/interpolations.ts : blend curves and radiusFromKeys         *)
(*   - models/Worm.ts            : the instanced-rings worm (spine chain,  *)
(*                                 ring field, instance buffer flags)      *)
(*   - models/WormSimulation.ts  : the separate-rings worm variant         *)
(*   - unnamed/part_001          : the worm drawn as one spiral line       *)
(*                                                                         *)
(* JavaScript numbers are modelled as fixed-point integers: the integer v  *)
(* stands for the number v / Scale.  Products and quotients are rounded to *)
(* the nearest representable value, the way IEEE arithmetic rounds to the  *)
(* nearest double.  NaN is a reserved value that every operation passes    *)
(* on.                                                                     *)
(***************************************************************************)
EXTENDS Integers, Sequences, FiniteSets, TLC

VARIABLES
    \* ---- radius profile (helpers/interpolations.ts) ----
    keys,       \* the RadiusKey[] handed to radiusFromKeys
    fdR,        \* the blend curve handed to radiusFromKeys / applied
    h,          \* the height handed to radiusFromKeys
    out,        \* the value radiusFromKeys returned
    blend,      \* the last two applications of a blend curve
    ppc,        \* which profile operation ran last
    \* ---- worm (models/Worm.ts, models/WormSimulation.ts) ----
    variant,    \* which Worm class: "instanced" (Worm.ts) or "separate"
    wormParams, \* the params object handed to the constructor
    cfg,        \* the configuration fields set by the constructor
    segments,   \* this.segments
    rings,      \* this.rings
    mesh,       \* this.instancedMesh: matrices, colors, versions
    headDirection,
    targetDirection,
    lastDirectionChange,
    time,       \* this.time
    frameCount, \* this.frameCount
    clock,      \* the wall clock of the driver
    threw,      \* the last call ended in a TypeError
    last,       \* the last call: its inputs and the segments before it
    steps,      \* the number of calls made
    \* ---- line worm (unnamed/part_001) ----
    lineParams,       \* this.params
    segmentPositions, \* head-to-tail positions, the steering end last
    segmentDirs,      \* the direction of each segment
    headDir,          \* the direction the steering end turns to
    nextTurnTime,
    elapsedTime,      \* this.clock.elapsedTime
    clockRunning,     \* this.clock.running
    positions,        \* the points of the line, one per segment
    widths,           \* the width of the line at each point
    lineLast,         \* the last call: its inputs and the segments before it
    lineSteps         \* the number of calls made

profileVars == <<keys, fdR, h, out, blend, ppc>>

wormVars == <<variant, wormParams, cfg, segments, rings, mesh, headDirection, targetDirection,
              lastDirectionChange, time, frameCount, clock, threw, last, steps>>

lineVars == <<lineParams, segmentPositions, segmentDirs, headDir, nextTurnTime, elapsedTime,
              clockRunning, positions, widths, lineLast, lineSteps>>

vars == <<keys, fdR, h, out, blend, ppc, variant, wormParams, cfg,
          segments, rings, mesh,
          headDirection, targetDirection, lastDirectionChange, time, frameCount,
          clock, threw, last, steps,
          lineParams, segmentPositions, segmentDirs, headDir, nextTurnTime, elapsedTime,
          clockRunning, positions, widths, lineLast, lineSteps>>

-----------------------------------------------------------------------------
(* Numbers *)

\* v stands for v / Scale
Scale == 10 * 10 * 10

\* the value of an undefined operation (0/0)
NaN == -2000000000

PosInf == 2000000000

NegInf == -2000000001

IsFinite(x) == x # NaN /\ x # PosInf /\ x # NegInf

Abs(x) == IF x < 0 THEN -x ELSE x

\* a / b for integers, b > 0, rounded to the nearest integer
RDiv(a, b) == IF a >= 0 THEN (2 * a + b) \div (2 * b)
              ELSE -((2 * (-a) + b) \div (2 * b))

\* the fixed-point product a * b
Mul(a, b) == IF a = NaN \/ b = NaN THEN NaN ELSE RDiv(a * b, Scale)

\* the fixed-point quotient a / b, with JavaScript's results for b = 0
FDiv(a, b) ==
    IF a = NaN \/ b = NaN THEN NaN
    ELSE IF b = 0 THEN (IF a = 0 THEN NaN ELSE IF a > 0 THEN PosInf ELSE NegInf)
    ELSE IF b > 0 THEN RDiv(a * Scale, b)
    ELSE RDiv((-a) * Scale, -b)

Add(a, b) == IF a = NaN \/ b = NaN THEN NaN ELSE a + b

Sub(a, b) == IF a = NaN \/ b = NaN THEN NaN ELSE a - b

\* Math.PI
Pi == 3142

HalfPi == 1571

TwoPi == 6283

\* cos x for 0 <= x <= pi/2, by its Taylor polynomial, at ten times the scale
CosQ(x) ==
    LET K  == 10 * Scale
        x2 == RDiv(x * x, Scale \div 10)
        c5 == K - RDiv(x2, 90)
        c4 == K - RDiv(x2 * c5, 56 * K)
        c3 == K - RDiv(x2 * c4, 30 * K)
        c2 == K - RDiv(x2 * c3, 12 * K)
        c1 == K - RDiv(x2 * c2, 2 * K)
    IN  RDiv(c1, 10)

\* sin x for 0 <= x <= pi/2
SinQ(x) ==
    LET K  == 10 * Scale
        x2 == RDiv(x * x, Scale \div 10)
        s5 == K - RDiv(x2, 110)
        s4 == K - RDiv(x2 * s5, 72 * K)
        s3 == K - RDiv(x2 * s4, 42 * K)
        s2 == K - RDiv(x2 * s3, 20 * K)
        s1 == K - RDiv(x2 * s2, 6 * K)
    IN  RDiv(x * s1, K)

\* x reduced to (-pi, pi]
Reduce(x) ==
    LET m == x % TwoPi
    IN  IF m > Pi THEN m - TwoPi ELSE m

\* cos a for 0 <= a <= pi
CosA(a) == IF a <= HalfPi THEN CosQ(a) ELSE -CosQ(Pi - a)

\* Math.cos
Cos(x) == IF x = NaN THEN NaN ELSE CosA(Abs(Reduce(x)))

\* sin a for 0 <= a <= pi
SinA(a) == SinQ(IF a <= HalfPi THEN a ELSE Pi - a)

\* sin r for -pi < r <= pi
SinR(r) == IF r < 0 THEN -SinA(-r) ELSE SinA(r)

\* Math.sin
Sin(x) == IF x = NaN THEN NaN ELSE SinR(Reduce(x))

\* Math.min and Math.max: NaN if either argument is NaN
MathMin(a, b) == IF a = NaN \/ b = NaN THEN NaN ELSE IF a < b THEN a ELSE b

MathMax(a, b) == IF a = NaN \/ b = NaN THEN NaN ELSE IF a > b THEN a ELSE b

-----------------------------------------------------------------------------
(* helpers/interpolations.ts *)

clamp01M(x) == x

clamp01(x) == MathMax(0, MathMin(Scale, x))

lerpM(a, b, t) == Add(a, Mul(Add(b, a), t))

lerp(a, b, t) == Add(a, Mul(Sub(b, a), t))

cosineEase(t) ==
    LET c == Cos(Mul(Pi, clamp01(t)))
    IN  IF c = NaN THEN NaN ELSE RDiv(Scale - c, 2)

smoothstep(t) ==
    LET c == clamp01(t)
    IN  IF c = NaN THEN NaN ELSE Mul(Mul(c, c), 3 * Scale - 2 * c)

fdR_linear(r0, r1, t) == lerp(r0, r1, clamp01(t))

fdR_cosine(r0, r1, t) == lerp(r0, r1, cosineEase(t))

fdR_smooth(r0, r1, t) == lerp(r0, r1, smoothstep(t))

\* the FdR values a caller can pass
Curves == {"linear", "cosine", "smooth"}

\* the call fdR(r0, r1, t)
ApplyFdR(c, r0, r1, t) ==
    CASE c = "linear" -> fdR_linear(r0, r1, t)
      [] c = "cosine" -> fdR_cosine(r0, r1, t)
      [] c = "smooth" -> fdR_smooth(r0, r1, t)

\* the value returned for an empty key list
DefaultRadiusM == Scale

DefaultRadius == Scale \div 2

\* the scan with the pair's radii taken in the wrong order
RECURSIVE ScanKeysM(_, _, _, _)
ScanKeysM(ks, c, x, i) ==
    IF i > Len(ks) - 1 THEN ks[Len(ks)].r
    ELSE LET a == ks[i]
             b == ks[i + 1]
         IN  IF x >= a.h /\ x <= b.h
             THEN ApplyFdR(c, b.r, a.r, FDiv(x - a.h, b.h - a.h))
             ELSE ScanKeysM(ks, c, x, i + 1)

\* the scan with a test that leaves out the heights of the pair
RECURSIVE ScanKeysStrict(_, _, _, _)
ScanKeysStrict(ks, c, x, i) ==
    IF i > Len(ks) - 1 THEN ks[Len(ks)].r
    ELSE LET a == ks[i]
             b == ks[i + 1]
         IN  IF x > a.h /\ x < b.h
             THEN ApplyFdR(c, a.r, b.r, FDiv(x - a.h, b.h - a.h))
             ELSE ScanKeysStrict(ks, c, x, i + 1)

\* the loop of radiusFromKeys from index i on (1-based)
RECURSIVE ScanKeys(_, _, _, _)
ScanKeys(ks, c, x, i) ==
    IF i > Len(ks) - 1 THEN ks[Len(ks)].r
    ELSE LET a == ks[i]
             b == ks[i + 1]
         IN  IF x >= a.h /\ x <= b.h
             THEN ApplyFdR(c, a.r, b.r, FDiv(x - a.h, b.h - a.h))
             ELSE ScanKeys(ks, c, x, i + 1)

radiusFromKeysNoLow(ks, c, x) ==
    IF Len(ks) = 0 THEN DefaultRadius
    ELSE IF x >= ks[Len(ks)].h THEN ks[Len(ks)].r
    ELSE ScanKeys(ks, c, x, 1)

radiusFromKeysM(ks, c, x) ==
    IF Len(ks) = 0 THEN DefaultRadius
    ELSE IF x >= ks[Len(ks)].h THEN ks[Len(ks)].r
    ELSE IF x <= ks[1].h THEN ks[1].r
    ELSE ScanKeys(ks, c, x, 1)

radiusFromKeys(ks, c, x) ==
    IF Len(ks) = 0 THEN DefaultRadius
    ELSE IF x <= ks[1].h THEN ks[1].r
    ELSE IF x >= ks[Len(ks)].h THEN ks[Len(ks)].r
    ELSE ScanKeys(ks, c, x, 1)

-----------------------------------------------------------------------------
(* Inputs of the radius profile *)

\* the longest key list
MaxKeys == 4

KeyHeights == {0, 5 * Scale, 10 * Scale}

KeyRadii == {50, Scale}

QueryHeights == {-2000, 0, 2500, 5000, 7500, 10000, 12000}

BlendTs == {-500, 0, 100, 250, 500, 750, 900, 1000, 1500}

RadiusKey == [h : KeyHeights, r : KeyRadii]

KeyLists == UNION {[1..n -> RadiusKey] : n \in 0..MaxKeys}

IsSorted(ks) == \A i \in 1..(Len(ks) - 1) : ks[i].h <= ks[i + 1].h

NoBlend == [c |-> "linear", r0 |-> 0, r1 |-> 0, ta |-> 0, tb |-> 0, fa |-> 0, fb |-> 0]

\* no worm is constructed while the profile functions are exercised
WormIdle ==
    /\ variant = "none"
    /\ wormParams = << >>
    /\ cfg = << >>
    /\ segments = << >>
    /\ rings = << >>
    /\ mesh = << >>
    /\ headDirection = << >>
    /\ targetDirection = << >>
    /\ lastDirectionChange = 0
    /\ time = 0
    /\ frameCount = 0
    /\ clock = 0
    /\ threw = FALSE
    /\ last = << >>
    /\ steps = 0

\* no line worm is constructed either
LineIdle ==
    /\ lineParams = << >>
    /\ segmentPositions = << >>
    /\ segmentDirs = << >>
    /\ headDir = << >>
    /\ nextTurnTime = 0
    /\ elapsedTime = 0
    /\ clockRunning = FALSE
    /\ positions = << >>
    /\ widths = << >>
    /\ lineLast = << >>
    /\ lineSteps = 0

InitProfile ==
    /\ keys \in KeyLists
    /\ fdR = "linear"
    /\ h = 0
    /\ out = 0
    /\ blend = NoBlend
    /\ ppc = "input"
    /\ WormIdle
    /\ LineIdle

\* a call radiusFromKeys(keys, c, x)
EvalRadius ==
    \E c \in Curves, x \in QueryHeights :
        /\ ppc = "input"
        /\ fdR' = c
        /\ h' = x
        /\ out' = radiusFromKeys(keys, c, x)
        /\ ppc' = "radius"
        /\ UNCHANGED <<keys, blend>>
        /\ UNCHANGED wormVars
        /\ UNCHANGED lineVars

\* two calls of one blend curve with the same radii
EvalBlend ==
    \E c \in Curves, r0 \in KeyRadii, r1 \in KeyRadii, ta \in BlendTs, tb \in BlendTs :
        /\ ppc = "input"
        /\ keys = << >>
        /\ blend' = [c |-> c, r0 |-> r0, r1 |-> r1, ta |-> ta, tb |-> tb,
                     fa |-> ApplyFdR(c, r0, r1, ta), fb |-> ApplyFdR(c, r0, r1, tb)]
        /\ ppc' = "blend"
        /\ UNCHANGED <<keys, fdR, h, out>>
        /\ UNCHANGED wormVars
        /\ UNCHANGED lineVars

NextProfile == EvalRadius \/ EvalBlend

SpecProfile == InitProfile /\ [][NextProfile]_vars

-----------------------------------------------------------------------------
(* THREE.Vector3 *)

Vec(a, b, c) == [x |-> a, y |-> b, z |-> c]

VAdd(v, w) == Vec(Add(v.x, w.x), Add(v.y, w.y), Add(v.z, w.z))

VSub(v, w) == Vec(Sub(v.x, w.x), Sub(v.y, w.y), Sub(v.z, w.z))

\* v.multiplyScalar(s)
VScale(v, s) == Vec(Mul(v.x, s), Mul(v.y, s), Mul(v.z, s))

\* v.divideScalar(s)
VDivide(v, s) == Vec(FDiv(v.x, s), FDiv(v.y, s), FDiv(v.z, s))

VHasNaN(v) == v.x = NaN \/ v.y = NaN \/ v.z = NaN

\* the largest r in lo..hi with r * r <= n
RECURSIVE SqrtSearch(_, _, _)
SqrtSearch(n, lo, hi) ==
    IF lo >= hi THEN lo
    ELSE IF ((lo + hi + 1) \div 2) * ((lo + hi + 1) \div 2) <= n
         THEN SqrtSearch(n, (lo + hi + 1) \div 2, hi)
         ELSE SqrtSearch(n, lo, ((lo + hi + 1) \div 2) - 1)

\* r or r + 1, whichever is nearer to the square root of n, for r = floor(sqrt n)
Nearest(n, r) == IF n - r * r > r THEN r + 1 ELSE r

\* Math.sqrt of an integer, rounded to the nearest integer
Sqrt(n) == Nearest(n, SqrtSearch(n, 0, 46340))

\* x*x + y*y + z*z, in units of 1 / Scale^2
LengthSq(v) == v.x * v.x + v.y * v.y + v.z * v.z

\* v.length()
VLength(v) == IF VHasNaN(v) THEN NaN ELSE Sqrt(LengthSq(v))

\* len || 1
OrOne(len) == IF len = 0 \/ len = NaN THEN Scale ELSE len

\* v.normalize(): divideScalar(length() || 1)
VNormalize(v) == VDivide(v, OrOne(VLength(v)))

\* v.lerp(w, alpha)
VLerp(v, w, alpha) ==
    Vec(Add(v.x, Mul(Sub(w.x, v.x), alpha)),
        Add(v.y, Mul(Sub(w.y, v.y), alpha)),
        Add(v.z, Mul(Sub(w.z, v.z), alpha)))

\* a.cross(b)
VCross(a, b) ==
    Vec(Sub(Mul(a.y, b.z), Mul(a.z, b.y)),
        Sub(Mul(a.z, b.x), Mul(a.x, b.z)),
        Sub(Mul(a.x, b.y), Mul(a.y, b.x)))

\* a.dot(b)
VDot(a, b) == Add(Add(Mul(a.x, b.x), Mul(a.y, b.y)), Mul(a.z, b.z))

Zero3 == Vec(0, 0, 0)

\* a % b of JavaScript for b > 0: the sign of the dividend
JsRem(a, b) == IF a = NaN THEN NaN ELSE IF a >= 0 THEN a % b ELSE -((-a) % b)

IdentityQuaternion == [x |-> 0, y |-> 0, z |-> 0, w |-> Scale]

\* quaternion.normalize(), given its length
QNormalize(q, l) ==
    IF l = 0 THEN IdentityQuaternion
    ELSE [x |-> FDiv(q.x, l), y |-> FDiv(q.y, l), z |-> FDiv(q.z, l), w |-> FDiv(q.w, l)]

QLength(q) ==
    IF q.x = NaN \/ q.y = NaN \/ q.z = NaN \/ q.w = NaN THEN NaN
    ELSE Sqrt(q.x * q.x + q.y * q.y + q.z * q.z + q.w * q.w)

\* setFromUnitVectors((0,0,1), vTo) before it normalizes
QFromZ(vTo) ==
    IF VHasNaN(vTo) THEN [x |-> NaN, y |-> NaN, z |-> NaN, w |-> NaN]
    ELSE IF vTo.z + Scale <= 0 THEN [x |-> 0, y |-> -Scale, z |-> 0, w |-> 0]
    ELSE [x |-> -vTo.y, y |-> vTo.x, z |-> 0, w |-> vTo.z + Scale]

\* quaternion.setFromUnitVectors((0,0,1), vTo)
QuaternionFromZ(vTo) == QNormalize(QFromZ(vTo), QLength(QFromZ(vTo)))

-----------------------------------------------------------------------------
(* models/Worm.ts: WormSegment *)

\* the axis updateLocalFrame crosses with the tangent
FrameAxis(t) == IF t.y # NaN /\ Abs(t.y) < 900 THEN Vec(0, Scale, 0) ELSE Vec(Scale, 0, 0)

\* the binormal of updateLocalFrame, once the normal is set
WithBinormal(seg) == [seg EXCEPT !.binormal = VNormalize(VCross(seg.tangent, seg.normal))]

\* WormSegment.updateLocalFrame
updateLocalFrame(seg) ==
    WithBinormal([seg EXCEPT !.normal = VNormalize(VCross(FrameAxis(seg.tangent), seg.tangent))])

\* new WormSegment(position, tangent)
WormSegment(position, tangent) ==
    updateLocalFrame([position |-> position, tangent |-> VNormalize(tangent),
                      normal |-> Zero3, binormal |-> Zero3])

-----------------------------------------------------------------------------
(* models/Worm.ts and models/WormSimulation.ts: class Worm *)

\* a parameter the caller left out
Undefined == -2000000002

\* params.x || d
OrDefault(v, d) == IF v = Undefined \/ v = 0 \/ v = NaN THEN d ELSE v

\* Worm.ts draws its rings as one instanced mesh, WormSimulation.ts as one mesh each
Variants == {"instanced", "separate"}

\* the fields the constructor sets from params
Configure(v, params) ==
    [totalLength |-> OrDefault(params.totalLength, 20 * Scale),
     segmentSpacing |-> OrDefault(params.segmentSpacing,
                                  IF v = "instanced" THEN 1200 ELSE 1500),
     pulsationAmplitude |-> OrDefault(params.pulsationAmplitude, 800),
     pulsationSpeed |-> OrDefault(params.pulsationSpeed, 2500),
     headSpeed |-> OrDefault(params.headSpeed, 3 * Scale),
     directionChangeInterval |-> OrDefault(params.directionChangeInterval, 4000),
     turnInertia |-> OrDefault(params.turnInertia, 20),
     frictionVariation |-> OrDefault(params.frictionVariation, 600)]

\* Math.floor(totalLength / segmentSpacing)
NumSegments(c) == c.totalLength \div c.segmentSpacing

\* createSegments
createSegmentsExtra(c) ==
    [k \in 1..(NumSegments(c) + 1) |->
        WormSegment(Vec(-((k - 1) * c.segmentSpacing), 0, 0), Vec(Scale, 0, 0))]

createSegments(c) ==
    [k \in 1..NumSegments(c) |->
        WormSegment(Vec(-((k - 1) * c.segmentSpacing), 0, 0), Vec(Scale, 0, 0))]

\* the friction speed given to ring i (0-based) of n, with Math.random() = rnd
InitialFriction(c, i, n, rnd) ==
    MathMax(-Scale, MathMin(Scale,
        Add(Add(500, Mul(FDiv(i * Scale, (n - 1) * Scale), 300)),
            Mul(rnd - 500, c.frictionVariation))))

\* color.setHSL(h, s, l), kept as the hue, saturation and lightness it stores
SetHSL(hue, s, l) ==
    [h |-> IF hue = NaN THEN NaN ELSE hue % Scale,
     s |-> clamp01(s), l |-> clamp01(l)]

\* createOptimizedInstancedRings: the ring data, with one random draw per ring
createInstancedRings(c, segs, rnds) ==
    [k \in 1..Len(segs) |->
        [segmentIndex |-> k - 1,
         frictionSpeed |-> InitialFriction(c, k - 1, Len(segs), rnds[k]),
         velocity |-> Zero3,
         targetPosition |-> segs[k].position]]

\* createOptimizedInstancedRings: the instanced mesh
createInstancedMesh(segs) ==
    [count |-> Len(segs),
     matrix |-> [k \in 1..Len(segs) |->
                    [position |-> Zero3, quaternion |-> IdentityQuaternion,
                     scale |-> Scale, written |-> 0]],
     color |-> [k \in 1..Len(segs) |->
                    SetHSL(FDiv((k - 1) * Scale, Len(segs) * Scale), 800, 600)],
     matrixVersion |-> 0,
     colorVersion |-> 0,
     colorWrites |-> 0,
     inScene |-> TRUE]

\* createSeparateRings: one mesh per segment
createSeparateRings(segs) ==
    [k \in 1..Len(segs) |->
        [segmentIndex |-> k - 1,
         position |-> segs[k].position,
         quaternion |-> IdentityQuaternion,
         scale |-> Scale,
         color |-> SetHSL(FDiv((k - 1) * Scale, Len(segs) * Scale), 800, 600)]]

\* WormSimulation.ts keeps no instanced mesh
NoMesh == [count |-> 0, matrix |-> << >>, color |-> << >>, matrixVersion |-> 0,
           colorVersion |-> 0, colorWrites |-> 0, inScene |-> FALSE]

\* the direction of yaw and pitch, before it is normalized
YawPitch(yaw, pitch) ==
    Vec(Mul(Cos(pitch), Cos(yaw)), Sin(pitch), Mul(Cos(pitch), Sin(yaw)))

\* pickNewDirection with Math.random() = ry, then rp
pickNewDirection(ry, rp) ==
    VNormalize(YawPitch(Mul(Mul(ry - 500, Pi), 1200), Mul(Mul(rp - 500, Pi), 600)))

\* the retarget test of updateHeadMovement
RetargetDueOrEqual(currentTime) ==
    currentTime - lastDirectionChange >= cfg.directionChangeInterval

RetargetDue(currentTime) == currentTime - lastDirectionChange > cfg.directionChangeInterval

\* the heading after the blend of updateHeadMovement
NewHeading(target) == VNormalize(VLerp(headDirection, target, cfg.turnInertia))

\* updateHeadMovement: the head segment after the move
MoveHeadNoDt(seg, heading, deltaTime) ==
    updateLocalFrame([seg EXCEPT
        !.position = VAdd(@, VScale(heading, cfg.headSpeed)),
        !.tangent = heading])

MoveHeadPreBlend(seg, heading, deltaTime) ==
    updateLocalFrame([seg EXCEPT
        !.position = VAdd(@, VScale(headDirection, Mul(cfg.headSpeed, deltaTime))),
        !.tangent = heading])

MoveHead(seg, heading, deltaTime) ==
    updateLocalFrame([seg EXCEPT
        !.position = VAdd(@, VScale(heading, Mul(cfg.headSpeed, deltaTime))),
        !.tangent = heading])

\* the move of segment i (0-based) toward its leader, Worm.ts
PullAmountM(distance, i, n) ==
    Mul(Mul(cfg.segmentSpacing - distance,
            MathMin(Scale, FDiv(distance - cfg.segmentSpacing, cfg.segmentSpacing))),
        Add(300, Mul(FDiv(i * Scale, n * Scale), 400)))

PullAmountTwice(distance, i, n) == Mul(distance - cfg.segmentSpacing, 2 * Scale)

PullAmount(distance, i, n) ==
    Mul(Mul(distance - cfg.segmentSpacing,
            MathMin(Scale, FDiv(distance - cfg.segmentSpacing, cfg.segmentSpacing))),
        Add(300, Mul(FDiv(i * Scale, n * Scale), 400)))

\* the move of a segment toward its leader, WormSimulation.ts
PullAmountOver(distance) == Mul(distance - cfg.segmentSpacing, 1150)

PullAmountSeparate(distance) == Mul(distance - cfg.segmentSpacing, 850)

\* the vector to the leader as the loop body leaves it: normalized if it pulled
Direction(toLeader, distance) ==
    IF distance > cfg.segmentSpacing THEN VNormalize(toLeader) ELSE toLeader

\* the position step of the loop body
PullAlways(current, direction, distance, amount) ==
    [current EXCEPT !.position = VAdd(@, VScale(direction, amount))]

Pull(current, direction, distance, amount) ==
    IF distance > cfg.segmentSpacing
    THEN [current EXCEPT !.position = VAdd(@, VScale(direction, amount))]
    ELSE current

\* the tangent step of the loop body, Worm.ts
Turn(seg, direction, distance) ==
    IF distance > 1
    THEN updateLocalFrame([seg EXCEPT !.tangent =
             VNormalize(VLerp(@, VNormalize(direction), 100))])
    ELSE seg

\* the tangent step of the loop body, WormSimulation.ts
TurnSeparate(seg, direction, distance) ==
    IF distance > 1
    THEN updateLocalFrame([seg EXCEPT !.tangent = VNormalize(direction)])
    ELSE seg

\* the loop body of updateBodySegments, given the direction and the distance
Relax(current, direction, distance, i, n) ==
    IF variant = "instanced"
    THEN Turn(Pull(current, direction, distance, PullAmount(distance, i, n)),
              direction, distance)
    ELSE TurnSeparate(Pull(current, direction, distance, PullAmountSeparate(distance)),
                      direction, distance)

\* the loop body of updateBodySegments, given the vector to the leader
RelaxToward(current, toLeader, i, n) ==
    Relax(current, Direction(toLeader, VLength(toLeader)), VLength(toLeader), i, n)

\* one iteration of the loop of updateBodySegments (i is 0-based)
RelaxOne(leader, current, i, n) ==
    RelaxToward(current, VSub(leader.position, current.position), i, n)

\* updateBodySegments: segments k..n (1-based) follow, each its updated leader
RECURSIVE updateBodySegments(_, _)
updateBodySegments(segs, k) ==
    IF k > Len(segs) THEN segs
    ELSE updateBodySegments(
             [segs EXCEPT ![k] = RelaxOne(segs[k - 1], @, k - 1, Len(segs))], k + 1)

\* progress = i / (rings.length - 1)
Progress(i, n) == FDiv(i * Scale, (n - 1) * Scale)

\* pulsationPhase of ring i (0-based) of n at time t
PulsationPhase(i, n, t) ==
    Add(Mul(Mul(Progress(i, n), Pi), 5 * Scale), Mul(t, cfg.pulsationSpeed))

\* segment.position + segment.tangent * pulsationOffset
PulsatedPosition(seg, phase) ==
    VAdd(seg.position, VScale(seg.tangent, Mul(Sin(phase), cfg.pulsationAmplitude)))

\* lightness = 0.5 + 0.3 * sin(time * 3 + progress * PI * 10)
Lightness(progress, t) ==
    Add(500, Mul(300, Sin(Add(Mul(t, 3 * Scale), Mul(Mul(progress, Pi), 10 * Scale)))))

\* baseHue = ((progress + time * 0.3) * 0.8) % 1.0
BaseHue(progress, t) == JsRem(Mul(Add(progress, Mul(t, 300)), 800), Scale)

\* the color updateRings gives a ring, Worm.ts
RingColor(progress, t, frictionSpeed) ==
    SetHSL(JsRem(Add(BaseHue(progress, t), Mul(frictionSpeed, 100)), Scale),
           850, Lightness(progress, t))

\* the color updateRings gives a ring, WormSimulation.ts
RingColorSeparate(progress, t) ==
    SetHSL(JsRem(Add(BaseHue(progress, t),
                     Mul(100, Sin(Add(Mul(t, 4 * Scale), Mul(Mul(progress, Pi), 8 * Scale))))),
                 Scale),
           Add(850, Mul(100, Sin(Add(Mul(t, 2 * Scale), Mul(Mul(progress, Pi), 6 * Scale))))),
           Lightness(progress, t))

\* whether this frame rewrites the colors: frameCount % COLOR_UPDATE_FREQUENCY === 0
UpdateColorsM(fc) == fc % 3 = 0

UpdateColors(fc) == fc % 2 = 0

\* targetPosition minus the position in the instance matrix
RingDelta(ring, mat) == VSub(ring.targetPosition, mat.position)

\* the velocity step of updateRings
Accelerate(ring, mat) ==
    IF VLength(RingDelta(ring, mat)) > 1
    THEN [ring EXCEPT !.velocity =
             VScale(VAdd(@, VScale(RingDelta(ring, mat),
                                   Add(50, Mul(Add(ring.frictionSpeed, Scale), 100)))),
                    850)]
    ELSE ring

\* the ring data after its iteration of updateRings
RingAfter(ring, seg, mat, phase) ==
    Accelerate([ring EXCEPT !.targetPosition = PulsatedPosition(seg, phase)], mat)

\* scale = 1.0 + 0.1 * sin(pulsationPhase + PI * 0.5) * (1 + frictionSpeed * 0.2)
RingScale(ring, phase) ==
    Add(Scale, Mul(Mul(100, Sin(Add(phase, Mul(Pi, 500)))),
                   Add(Scale, Mul(ring.frictionSpeed, 200))))

\* the instance matrix after the iteration, ring being the ring data after it
MatrixAfter(ring, seg, mat, phase, fc) ==
    IF VLength(RingDelta(ring, mat)) > 1
    THEN [position |-> VAdd(mat.position, ring.velocity),
          quaternion |-> QuaternionFromZ(seg.tangent),
          scale |-> RingScale(ring, phase),
          written |-> fc]
    ELSE mat

\* updateRings, Worm.ts: the ring data
updateRingsStale(segs, rs, m, t) ==
    [k \in 1..Len(rs) |->
        RingAfter(rs[k], segments[rs[k].segmentIndex + 1], m.matrix[k],
                  PulsationPhase(k - 1, Len(rs), t))]

updateRings(segs, rs, m, t) ==
    [k \in 1..Len(rs) |->
        RingAfter(rs[k], segs[rs[k].segmentIndex + 1], m.matrix[k],
                  PulsationPhase(k - 1, Len(rs), t))]

\* updateRings, Worm.ts: the instanced mesh, rs being the ring data after it
updateInstances(segs, rs, m, t, fc) ==
    [m EXCEPT
        !.matrix = [k \in 1..m.count |->
                       IF k <= Len(rs)
                       THEN MatrixAfter(rs[k], segs[rs[k].segmentIndex + 1], @[k],
                                        PulsationPhase(k - 1, Len(rs), t), fc)
                       ELSE @[k]],
        !.color = [k \in 1..m.count |->
                      IF k <= Len(rs) /\ UpdateColors(fc)
                      THEN RingColor(Progress(k - 1, Len(rs)), t, rs[k].frictionSpeed)
                      ELSE @[k]],
        !.colorWrites = IF UpdateColors(fc) THEN @ + Len(rs) ELSE @,
        !.matrixVersion = @ + 1,
        !.colorVersion = IF UpdateColors(fc) THEN @ + 1 ELSE @]

\* one ring mesh after its iteration of updateRings, WormSimulation.ts
RingMeshAfter(ring, seg, phase, progress, t) ==
    [ring EXCEPT
        !.position = PulsatedPosition(seg, phase),
        !.quaternion = QuaternionFromZ(seg.tangent),
        !.color = RingColorSeparate(progress, t),
        !.scale = Add(Scale, Mul(150, Sin(Add(phase, Mul(Pi, 500)))))]

\* updateRings, WormSimulation.ts
updateRingsSeparate(segs, rs, t) ==
    [k \in 1..Len(rs) |->
        RingMeshAfter(rs[k], segs[rs[k].segmentIndex + 1],
                      PulsationPhase(k - 1, Len(rs), t), Progress(k - 1, Len(rs)), t)]

\* setRingFrictionSpeed: the ring data
WithFrictionWrapped(rs, ringIndex, frictionSpeed) ==
    IF Len(rs) > 0
    THEN [rs EXCEPT ![((ringIndex + Len(rs)) % Len(rs)) + 1].frictionSpeed =
             MathMax(-Scale, MathMin(Scale, frictionSpeed))]
    ELSE rs

WithFriction(rs, ringIndex, frictionSpeed) ==
    IF ringIndex >= 0 /\ ringIndex < Len(rs)
    THEN [rs EXCEPT ![ringIndex + 1].frictionSpeed =
             MathMax(-Scale, MathMin(Scale, frictionSpeed))]
    ELSE rs

\* setPosition: every segment moved by the offset of the head
TranslateEach(segs, position) ==
    [k \in 1..Len(segs) |->
        [segs[k] EXCEPT !.position = VAdd(@, VSub(position, segs[k].position))]]

Translate(segs, position) ==
    [k \in 1..Len(segs) |->
        [segs[k] EXCEPT !.position = VAdd(@, VSub(position, segs[1].position))]]

\* the segments left by dispose(): Worm.ts clears them, WormSimulation.ts keeps them
DisposedSegments(v, segs) == IF v = "instanced" THEN << >> ELSE segs

-----------------------------------------------------------------------------
(* The driver: construction and the calls made on a worm *)

\* the number of calls in a behaviour
MaxSteps == 3

\* what callers pass as params
ParamChoices ==
    {[totalLength |-> 3600, segmentSpacing |-> Undefined, pulsationAmplitude |-> Undefined,
      pulsationSpeed |-> Undefined, headSpeed |-> Undefined,
      directionChangeInterval |-> Undefined, turnInertia |-> 500,
      frictionVariation |-> Undefined],
     [totalLength |-> 1500, segmentSpacing |-> Undefined, pulsationAmplitude |-> Undefined,
      pulsationSpeed |-> Undefined, headSpeed |-> 0,
      directionChangeInterval |-> Undefined, turnInertia |-> Scale,
      frictionVariation |-> Undefined]}

\* values of Math.random() when the ring frictions are drawn
FrictionRandoms == {0, 999}

\* values of Math.random() for the yaw and the pitch of a new direction
YawRandoms == {50, 996}

PitchRandoms == {500}

\* deltaTime of a frame, in seconds: none, one 60 Hz frame, one second
DeltaTimes == {0, 16, Scale}

\* wall-clock time between two calls of update, in milliseconds: one second,
\* exactly the default directionChangeInterval, and more than it
ClockSteps == {Scale, 4000, 5000}

\* the frames the driver runs: a one-second step advances the clock by one second
Frames == {f \in DeltaTimes \X ClockSteps : f[1] = Scale <=> f[2] = Scale}

\* where callers move the head: two units up, and next to the origin
Positions == {Vec(0, 2 * Scale, 0), Vec(-9, 0, 24)}

FrictionIndexes == {-1, 0, 3}

FrictionValues == {-2500, 700}

\* the record of the last call: its inputs and the segments before it
Call(op, retarget, deltaTime) ==
    [op |-> op, retarget |-> retarget, deltaTime |-> deltaTime, before |-> segments,
     random |-> << >>, args |-> << >>]

ProfileIdle ==
    /\ keys = << >>
    /\ fdR = "linear"
    /\ h = 0
    /\ out = 0
    /\ blend = NoBlend
    /\ ppc = "idle"

\* new Worm(scene, params)
Init ==
    /\ ProfileIdle
    /\ LineIdle
    /\ variant \in Variants
    /\ wormParams \in ParamChoices
    /\ cfg = Configure(variant, wormParams)
    /\ segments = createSegments(cfg)
    /\ IF variant = "instanced"
       THEN /\ \E rnd \in FrictionRandoms :
                   rings = createInstancedRings(cfg, segments,
                                                [k \in 1..Len(segments) |-> rnd])
            /\ mesh = createInstancedMesh(segments)
       ELSE /\ rings = createSeparateRings(segments)
            /\ mesh = NoMesh
    /\ headDirection = Vec(Scale, 0, 0)
    /\ targetDirection = Vec(Scale, 0, 0)
    /\ lastDirectionChange = 0
    /\ time = 0
    /\ frameCount = 0
    /\ clock = 0
    /\ threw = FALSE
    /\ last = [op |-> "new", retarget |-> FALSE, deltaTime |-> 0, before |-> << >>,
               random |-> << >>, args |-> << >>]
    /\ steps = 0

\* worm.update(deltaTime, currentTime); the random numbers are drawn on a retarget only
update ==
    \E deltaTime \in DeltaTimes, dClock \in ClockSteps, ry \in YawRandoms, rp \in PitchRandoms :
        /\ steps < MaxSteps
        /\ <<deltaTime, dClock>> \in Frames
        /\ IF RetargetDue(clock + dClock) THEN TRUE ELSE \A y \in YawRandoms : ry <= y
        /\ steps' = steps + 1
        /\ clock' = clock + dClock
        /\ time' = time + deltaTime
        /\ frameCount' = IF variant = "instanced" THEN frameCount + 1 ELSE frameCount
        /\ lastDirectionChange' = IF RetargetDue(clock') THEN clock' ELSE lastDirectionChange
        /\ targetDirection' = IF RetargetDue(clock') THEN pickNewDirection(ry, rp)
                              ELSE targetDirection
        /\ headDirection' = NewHeading(targetDirection')
        /\ last' = [Call("update", RetargetDue(clock'), deltaTime) EXCEPT
                        !.random = IF RetargetDue(clock') THEN <<ry, rp>> ELSE << >>]
        /\ IF Len(segments) = 0
           THEN /\ threw' = TRUE
                /\ UNCHANGED <<segments, rings, mesh>>
           ELSE /\ threw' = FALSE
                /\ segments' = updateBodySegments(
                       [segments EXCEPT ![1] = MoveHead(@, headDirection', deltaTime)], 2)
                /\ IF variant = "instanced"
                   THEN /\ rings' = updateRings(segments', rings, mesh, time')
                        /\ mesh' = updateInstances(segments', rings', mesh, time', frameCount')
                   ELSE /\ rings' = updateRingsSeparate(segments', rings, time')
                        /\ UNCHANGED mesh
        /\ UNCHANGED <<variant, wormParams, cfg>>
        /\ UNCHANGED profileVars
        /\ UNCHANGED lineVars

\* worm.setPosition(position)
setPosition ==
    \E position \in Positions :
        /\ steps < MaxSteps
        /\ steps' = steps + 1
        /\ last' = Call("setPosition", FALSE, 0)
        /\ IF Len(segments) = 0
           THEN threw' = TRUE /\ UNCHANGED segments
           ELSE threw' = FALSE /\ segments' = Translate(segments, position)
        /\ UNCHANGED <<variant, wormParams, cfg, rings, mesh, headDirection, targetDirection,
                       lastDirectionChange, time, frameCount, clock>>
        /\ UNCHANGED profileVars
        /\ UNCHANGED lineVars

\* worm.setRingFrictionSpeed(ringIndex, frictionSpeed), a method of Worm.ts only
setRingFrictionSpeed ==
    \E ringIndex \in FrictionIndexes, frictionSpeed \in FrictionValues :
        /\ variant = "instanced"
        /\ steps < MaxSteps
        /\ steps' = steps + 1
        /\ threw' = FALSE
        /\ last' = [Call("setRingFrictionSpeed", FALSE, 0) EXCEPT
                        !.args = <<ringIndex>>]
        /\ rings' = WithFriction(rings, ringIndex, frictionSpeed)
        /\ UNCHANGED <<variant, wormParams, cfg, segments, mesh, headDirection, targetDirection,
                       lastDirectionChange, time, frameCount, clock>>
        /\ UNCHANGED profileVars
        /\ UNCHANGED lineVars

\* worm.dispose()
dispose ==
    /\ steps < MaxSteps
    /\ steps' = steps + 1
    /\ threw' = FALSE
    /\ last' = Call("dispose", FALSE, 0)
    /\ rings' = << >>
    /\ segments' = DisposedSegments(variant, segments)
    /\ mesh' = [mesh EXCEPT !.inScene = FALSE]
    /\ UNCHANGED <<variant, wormParams, cfg, headDirection, targetDirection,
                   lastDirectionChange, time, frameCount, clock>>
    /\ UNCHANGED profileVars
    /\ UNCHANGED lineVars

Next == update \/ setPosition \/ setRingFrictionSpeed \/ dispose

Spec == Init /\ [][Next]_vars

-----------------------------------------------------------------------------
(* unnamed/part_001: the worm drawn as one spiral line *)

\* v ?? d
OrElse(v, d) == IF v = Undefined THEN d ELSE v

\* this.params: the defaults of the constructor
LineConfigure(p) ==
    [totalLength |-> p.totalLength,
     baseRadiusKeys |-> p.baseRadiusKeys,
     fdR |-> p.fdR,
     speed |-> OrElse(p.speed, 2200),
     inertia |-> OrElse(p.inertia, 900),
     spiralLoops |-> OrElse(p.spiralLoops, 12 * Scale),
     pointsPerLoop |-> OrElse(p.pointsPerLoop, 8 * Scale),
     pulseAmplitude |-> OrElse(p.pulseAmplitude, 300),
     segmentCount |-> OrElse(p.segmentCount, 72)]

\* totalLength / (segmentCount - 1)
SegLength(p) == FDiv(p.totalLength, (p.segmentCount - 1) * Scale)

\* the segment positions of the constructor: a straight line along Z
LinePositions(p) ==
    [k \in 1..p.segmentCount |-> Vec(0, 0, Mul((k - 1) * Scale, SegLength(p)))]

\* the segment directions of the constructor
LineDirs(p) == [k \in 1..p.segmentCount |-> Vec(0, 0, Scale)]

\* a Float32Array of n points, and one of n numbers
ZeroPoints(n) == [k \in 1..n |-> Zero3]

ZeroWidths(n) == [k \in 1..n |-> 0]

\* v turned about the x axis by the angle a
RotateX(v, a) ==
    Vec(v.x,
        Sub(Mul(v.y, Cos(a)), Mul(v.z, Sin(a))),
        Add(Mul(v.y, Sin(a)), Mul(v.z, Cos(a))))

\* v turned about the y axis by the angle a
RotateY(v, a) ==
    Vec(Add(Mul(v.x, Cos(a)), Mul(v.z, Sin(a))),
        v.y,
        Sub(Mul(v.z, Cos(a)), Mul(v.x, Sin(a))))

\* v.applyQuaternion(setFromEuler(Euler(pitch, yaw, 0, "YXZ"))): pitch about x, then yaw about y
ApplyEulerYXZ(v, pitch, yaw) == RotateY(RotateX(v, pitch), yaw)

\* (Math.random() * 2 - 1) * Math.PI * 0.5
TurnYaw(rnd) == Mul(Mul(Sub(Mul(rnd, 2 * Scale), Scale), Pi), 500)

\* (Math.random() * 2 - 1) * Math.PI * 0.2
TurnPitch(rnd) == Mul(Mul(Sub(Mul(rnd, 2 * Scale), Scale), Pi), 200)

\* scheduleNextTurn: now + 1.0 + Math.random() * 2.0
NextTurn(now, rnd) == Add(now, Add(Scale, Mul(rnd, 2 * Scale)))

\* scheduleNextTurn: the direction of the steering end, turned and normalized
TurnedHeadDir(dir, ry, rp) == VNormalize(ApplyEulerYXZ(dir, TurnPitch(rp), TurnYaw(ry)))

\* time >= this.nextTurnTime
TurnDue(now) == now >= nextTurnTime

\* headDir.lerp(this.headDir, 1 - inertia).normalize()
SteeredDir(dir, target, p) == VNormalize(VLerp(dir, target, Sub(Scale, p.inertia)))

\* headPos.addScaledVector(headDir, speed * dt)
SteeredPos(pos, dir, p, dt) == VAdd(pos, VScale(dir, Mul(p.speed, dt)))

\* dir.length() || 1e-6, and 1e-6 is 0 at the resolution of the numbers
OrTiny(len) == IF len = 0 \/ len = NaN THEN 0 ELSE len

\* dir.normalize().multiplyScalar(dist - segLength), dir the vector to the neighbour
FollowMove(toNext, segLength) ==
    VScale(VNormalize(toNext), Sub(OrTiny(VLength(toNext)), segLength))

\* the follow loop reading every neighbour's position from before the loop
FollowPositionsStale(pos, i, segLength) ==
    [k \in 1..Len(pos) |->
        IF k <= i THEN VAdd(pos[k], FollowMove(VSub(pos[k + 1], pos[k]), segLength))
        ELSE pos[k]]

\* the body follows the head: segment i moves along the vector to segment i + 1,
\* from the segment next to the steering end down to the first
RECURSIVE FollowPositions(_, _, _)
FollowPositions(pos, i, segLength) ==
    IF i < 1 THEN pos
    ELSE FollowPositions(
             [pos EXCEPT ![i] = VAdd(@, FollowMove(VSub(pos[i + 1], @), segLength))],
             i - 1, segLength)

\* segmentDirs[i].lerp(dir, 0.5).normalize(): dir is the move of segment i, from
\* its position before the move to its neighbour after the neighbour's move
FollowDir(dir, posBefore, nextAfter, segLength) ==
    VNormalize(VLerp(dir, FollowMove(VSub(nextAfter, posBefore), segLength), 500))

\* normal (0, 1, 0), or (1, 0, 0) when the tangent is within 0.99 of it
SpiralUp(tangent) ==
    IF tangent.y # NaN /\ Abs(VDot(tangent, Vec(0, Scale, 0))) > 990
    THEN Vec(Scale, 0, 0) ELSE Vec(0, Scale, 0)

\* binormal = tangent x normal, normalized
SpiralBinormal(tangent) == VNormalize(VCross(tangent, SpiralUp(tangent)))

\* normal = binormal x tangent, normalized
SpiralNormal(tangent, binormal) == VNormalize(VCross(binormal, tangent))

\* normal * cos(angle) * radius + binormal * sin(angle) * radius
SpiralOffset(normal, binormal, angle, radius) ==
    VAdd(VScale(normal, Mul(Cos(angle), radius)), VScale(binormal, Mul(Sin(angle), radius)))

\* t = i / (segCount - 1)
LineProgress(i, n) == FDiv(i * Scale, (n - 1) * Scale)

\* radiusFromKeys(baseRadiusKeys, fdR, t * totalLength)
BaseR(p, t) == radiusFromKeys(p.baseRadiusKeys, p.fdR, Mul(t, p.totalLength))

\* 1 + pulseAmplitude * Math.sin(time * 4 + t * 12)
Pulse(p, t, now) ==
    Add(Scale, Mul(p.pulseAmplitude, Sin(Add(Mul(now, 4 * Scale), Mul(t, 12 * Scale)))))

\* t * Math.PI * 2 * spiralLoops + time * 2.0
SpiralAngle(p, t, now) ==
    Add(Mul(Mul(Mul(t, Pi), 2 * Scale), p.spiralLoops), Mul(now, 2 * Scale))

\* the point of the line at a segment: the segment's position plus the spiral offset
SpiralPoint(pos, tangent, angle, radius) ==
    VAdd(pos, SpiralOffset(SpiralNormal(tangent, SpiralBinormal(tangent)),
                           SpiralBinormal(tangent), angle, radius))

\* this.positions after the spiral loop
SpiralPositions(p, pos, dirs, now) ==
    [k \in 1..Len(pos) |->
        SpiralPoint(pos[k], dirs[k],
                    SpiralAngle(p, LineProgress(k - 1, Len(pos)), now),
                    Mul(BaseR(p, LineProgress(k - 1, Len(pos))),
                        Pulse(p, LineProgress(k - 1, Len(pos)), now)))]

\* this.widths after the spiral loop: Math.max(0.001, baseR)
SpiralWidths(p, n) == [k \in 1..n |-> MathMax(1, BaseR(p, LineProgress(k - 1, n)))]

-----------------------------------------------------------------------------
(* The driver of the line worm *)

\* the number of calls of update in a behaviour
MaxLineSteps == 4

\* the radius profile of the line worms
LineKeys == <<[h |-> 0, r |-> 200], [h |-> 2 * Scale, r |-> 500]>>

\* what callers pass as params: a slow worm that turns at once, and the defaults
LineParamChoices ==
    {[totalLength |-> 4 * Scale, baseRadiusKeys |-> LineKeys, fdR |-> "linear",
      speed |-> Scale, inertia |-> 0, spiralLoops |-> Undefined,
      pointsPerLoop |-> Undefined, pulseAmplitude |-> Undefined, segmentCount |-> 3],
     [totalLength |-> 2 * Scale, baseRadiusKeys |-> LineKeys, fdR |-> "linear",
      speed |-> Undefined, inertia |-> Undefined, spiralLoops |-> Undefined,
      pointsPerLoop |-> Undefined, pulseAmplitude |-> Undefined, segmentCount |-> 3]}

\* the time between two frames, in seconds: one 60 Hz frame, one second
LineDeltas == {16, Scale}

\* values of Math.random() for the delay, the yaw and the pitch of a turn
TurnDelayRandoms == {0, 500}

TurnYawRandoms == {0, 750}

TurnPitchRandoms == {500}

\* clock.getDelta(): 0 on the call that starts the clock, the frame time after it
ClockDeltas == IF clockRunning THEN LineDeltas ELSE {0}

\* new Worm(p, resolution)
InitLine ==
    /\ ProfileIdle
    /\ WormIdle
    /\ \E p \in LineParamChoices : lineParams = LineConfigure(p)
    /\ segmentPositions = LinePositions(lineParams)
    /\ segmentDirs = LineDirs(lineParams)
    /\ headDir = Vec(0, 0, Scale)
    /\ nextTurnTime = 0
    /\ elapsedTime = 0
    /\ clockRunning = FALSE
    /\ positions = ZeroPoints(lineParams.segmentCount)
    /\ widths = ZeroWidths(lineParams.segmentCount)
    /\ lineLast = [op |-> "new", dt |-> 0, turned |-> FALSE,
                   positionsBefore |-> << >>, dirsBefore |-> << >>]
    /\ lineSteps = 0

\* worm.update(); the random numbers are drawn on a turn only
lineUpdate ==
    \E dt \in ClockDeltas, rd \in TurnDelayRandoms, ry \in TurnYawRandoms,
       rp \in TurnPitchRandoms :
        /\ lineSteps < MaxLineSteps
        /\ IF TurnDue(elapsedTime + dt) THEN TRUE
           ELSE (\A d \in TurnDelayRandoms : rd <= d) /\ (\A y \in TurnYawRandoms : ry <= y)
        /\ lineSteps' = lineSteps + 1
        /\ clockRunning' = TRUE
        /\ elapsedTime' = elapsedTime + dt
        /\ nextTurnTime' = IF TurnDue(elapsedTime') THEN NextTurn(elapsedTime', rd)
                           ELSE nextTurnTime
        /\ headDir' = IF TurnDue(elapsedTime')
                      THEN TurnedHeadDir(segmentDirs[Len(segmentDirs)], ry, rp)
                      ELSE headDir
        /\ lineLast' = [op |-> "update", dt |-> dt, turned |-> TurnDue(elapsedTime'),
                        positionsBefore |-> segmentPositions, dirsBefore |-> segmentDirs]
        /\ segmentPositions' =
               FollowPositions(
                   [segmentPositions EXCEPT ![Len(segmentPositions)] =
                       SteeredPos(@, SteeredDir(segmentDirs[Len(segmentDirs)], headDir',
                                                lineParams),
                                  lineParams, dt)],
                   Len(segmentPositions) - 1, SegLength(lineParams))
        /\ segmentDirs' =
               [k \in 1..Len(segmentDirs) |->
                   IF k = Len(segmentDirs)
                   THEN SteeredDir(segmentDirs[k], headDir', lineParams)
                   ELSE FollowDir(segmentDirs[k], segmentPositions[k],
                                  segmentPositions'[k + 1], SegLength(lineParams))]
        /\ positions' = SpiralPositions(lineParams, segmentPositions', segmentDirs',
                                        elapsedTime')
        /\ widths' = SpiralWidths(lineParams, Len(segmentPositions))
        /\ UNCHANGED lineParams
        /\ UNCHANGED profileVars
        /\ UNCHANGED wormVars

NextLine == lineUpdate

SpecLine == InitLine /\ [][NextLine]_vars

-----------------------------------------------------------------------------
(* Properties of the radius profile *)

Last(ks) == ks[Len(ks)]

\* the consecutive pair (i, i+1) brackets x
Brackets(ks, x, i) == x >= ks[i].h /\ x <= ks[i + 1].h

\* the first consecutive pair that brackets x, 0 if there is none
FirstBracket(ks, x) ==
    LET S == {i \in 1..(Len(ks) - 1) : Brackets(ks, x, i)}
    IN  IF S = {} THEN 0 ELSE CHOOSE i \in S : \A j \in S : i <= j

\* the first key whose height is x
FirstAt(ks, x) == CHOOSE i \in 1..Len(ks) : ks[i].h = x /\ \A j \in 1..(i - 1) : ks[j].h # x

MinRadius(ks) == CHOOSE r \in {ks[i].r : i \in 1..Len(ks)} : \A j \in 1..Len(ks) : r <= ks[j].r

MaxRadius(ks) == CHOOSE r \in {ks[i].r : i \in 1..Len(ks)} : \A j \in 1..Len(ks) : r >= ks[j].r

SortedCall == ppc = "radius" /\ Len(keys) > 0 /\ IsSorted(keys)

UnsortedCall == ppc = "radius" /\ Len(keys) > 0 /\ ~IsSorted(keys)

InteriorCall == SortedCall /\ keys[1].h < h /\ h < Last(keys).h

\* C1 as stated: for sorted non-empty keys, radiusFromKeys returns keys[0].r
\* whenever h <= keys[0].h and keys[last].r whenever h >= keys[last].h.
C1_AsStated ==
    SortedCall =>
        /\ (h <= keys[1].h => out = keys[1].r)
        /\ (h >= Last(keys).h => out = Last(keys).r)

\* C1 amended: for sorted non-empty keys and any curve, radiusFromKeys returns
\* keys[0].r whenever h <= keys[0].h, and keys[last].r whenever
\* h >= keys[last].h and h > keys[0].h (the first key wins when h is at both).
C1_FlatExtrapolation ==
    SortedCall =>
        /\ (h <= keys[1].h => out = keys[1].r)
        /\ (h >= Last(keys).h /\ h > keys[1].h => out = Last(keys).r)

C1_Witness ==
    /\ SortedCall
    /\ Len(keys) >= 2
    /\ h > Last(keys).h
    /\ keys[1].r # Last(keys).r
    /\ out = Last(keys).r

\* C2 as stated: for sorted keys and h strictly between the first and last key
\* heights, the result is the blend over the first bracketing pair, and at an
\* interior key's height it is that key's radius.
C2_AsStated ==
    InteriorCall =>
        LET i == FirstBracket(keys, h)
        IN  /\ i > 0
            /\ out = ApplyFdR(fdR, keys[i].r, keys[i + 1].r,
                              FDiv(h - keys[i].h, keys[i + 1].h - keys[i].h))
            /\ \A k \in 2..(Len(keys) - 1) : keys[k].h = h => out = keys[k].r

\* C2 amended: for sorted keys and h strictly between the first and last key
\* heights, the result is the blend over the first bracketing pair (a, b) at
\* t = (h - h_a)/(h_b - h_a); at an interior key's height it is the radius of
\* the first key that has that height.
C2_BracketBlend ==
    InteriorCall =>
        LET i == FirstBracket(keys, h)
        IN  /\ i > 0
            /\ out = ApplyFdR(fdR, keys[i].r, keys[i + 1].r,
                              FDiv(h - keys[i].h, keys[i + 1].h - keys[i].h))
            /\ (\E k \in 2..(Len(keys) - 1) : keys[k].h = h)
                   => out = keys[FirstAt(keys, h)].r

C2_Witness ==
    /\ InteriorCall
    /\ fdR = "smooth"
    /\ \E k \in 2..(Len(keys) - 1) :
           keys[k].h = h /\ keys[k].r # keys[1].r /\ out = keys[k].r

\* C3: for sorted non-empty keys, any curve and any height, the result lies
\* between the smallest and the largest key radius (so a flat profile returns
\* its radius everywhere).
C3_NoOvershoot ==
    SortedCall => out >= MinRadius(keys) /\ out <= MaxRadius(keys)

C3_Witness ==
    /\ InteriorCall
    /\ fdR = "cosine"
    /\ out > MinRadius(keys)
    /\ out < MaxRadius(keys)

\* C4: with an empty key list radiusFromKeys returns 0.5 for every height and
\* every curve.
C4_EmptyDefault ==
    (ppc = "radius" /\ Len(keys) = 0) => out = Scale \div 2

C4_Witness == ppc = "radius" /\ Len(keys) = 0 /\ fdR = "cosine" /\ h < 0 /\ out = Scale \div 2

\* C5 as stated: for non-empty unsorted keys the result is a defined number,
\* and it is the last key's radius when no consecutive pair brackets h.
C5_AsStated ==
    UnsortedCall =>
        /\ IsFinite(out)
        /\ (FirstBracket(keys, h) = 0 => out = Last(keys).r)

\* C5 amended: for non-empty unsorted keys the result is a defined number; when
\* no consecutive pair brackets h it is the first key's radius if
\* h <= keys[0].h and the last key's radius otherwise.
C5_UnsortedDefined ==
    UnsortedCall =>
        /\ IsFinite(out)
        /\ (FirstBracket(keys, h) = 0 =>
                out = (IF h <= keys[1].h THEN keys[1].r ELSE Last(keys).r))

C5_Witness ==
    /\ UnsortedCall
    /\ FirstBracket(keys, h) = 0
    /\ h < keys[1].h
    /\ keys[1].r # Last(keys).r
    /\ out = keys[1].r

\* C6: each blend curve returns r0 at t = 0 and r1 at t = 1, is monotone in t
\* (non-decreasing when r0 <= r1, non-increasing when r0 >= r1), and clamps t
\* outside [0,1] to the endpoints.
C6_BlendCurves ==
    ppc = "blend" =>
        /\ (blend.ta <= 0 => blend.fa = blend.r0)
        /\ (blend.ta >= Scale => blend.fa = blend.r1)
        /\ (blend.ta <= blend.tb /\ blend.r0 <= blend.r1 => blend.fa <= blend.fb)
        /\ (blend.ta <= blend.tb /\ blend.r0 >= blend.r1 => blend.fa >= blend.fb)

C6_Witness ==
    /\ ppc = "blend"
    /\ blend.c = "cosine"
    /\ blend.ta > 0 /\ blend.ta < blend.tb /\ blend.tb < Scale
    /\ blend.r0 > blend.r1
    /\ blend.fa > blend.fb

-----------------------------------------------------------------------------
(* Properties of the worm *)

\* v has length 1, up to the rounding of its components
IsUnit(v) == ~VHasNaN(v) /\ Abs(LengthSq(v) - Scale * Scale) <= 4 * Scale

\* the last call was a tick that ran to its end
Ticked == last.op = "update" /\ ~threw

\* squared distance of segment k to its leader when the loop reached it
PreSq(k) == LengthSq(VSub(segments[k - 1].position, last.before[k].position))

\* squared distance of segment k to its leader when the loop left it
PostSq(k) == LengthSq(VSub(segments[k - 1].position, segments[k].position))

\* segment k was farther from its leader than segmentSpacing when the loop reached it
Stretched(k) ==
    VLength(VSub(segments[k - 1].position, last.before[k].position)) > cfg.segmentSpacing

Followers == IF Ticked THEN 2..Len(segments) ELSE {}

C9_RingPerSegment == Len(rings) = Len(segments)

\* C10: every tick of Worm.ts that runs to its end marks the instance matrices
\* for upload; it rewrites every ring color and marks the colors for upload if
\* its frame count is even, and neither writes a color nor marks them if it is
\* odd; no other call writes a color or marks either buffer.
C10_DirtyFlags ==
    [][IF last'.op = "update" /\ ~threw' /\ variant = "instanced"
       THEN /\ mesh'.matrixVersion = mesh.matrixVersion + 1
            /\ IF frameCount' % 2 = 0
               THEN /\ mesh'.colorVersion = mesh.colorVersion + 1
                    /\ mesh'.colorWrites = mesh.colorWrites + Len(rings)
               ELSE /\ mesh'.colorVersion = mesh.colorVersion
                    /\ mesh'.colorWrites = mesh.colorWrites
                    /\ mesh'.color = mesh.color
       ELSE /\ mesh'.matrixVersion = mesh.matrixVersion
            /\ mesh'.colorVersion = mesh.colorVersion
            /\ mesh'.colorWrites = mesh.colorWrites
            /\ mesh'.color = mesh.color]_vars

C10_Witness ==
    /\ variant = "instanced"
    /\ Ticked
    /\ frameCount = 3
    /\ mesh.matrixVersion = 3
    /\ mesh.colorVersion = 1
    /\ mesh.colorWrites = Len(rings)
    /\ Len(rings) = 3

\* every call so far was a tick of Worm.ts with deltaTime = 0
OnlyZeroTicks == variant = "instanced" /\ frameCount = steps /\ time = 0

\* C11: after any number of ticks with deltaTime = 0 on a freshly built worm,
\* retargets included, every segment is where the constructor put it.
C11_ZeroMotion ==
    OnlyZeroTicks =>
        /\ Len(segments) = NumSegments(cfg)
        /\ \A k \in 1..Len(segments) :
               segments[k].position = createSegments(cfg)[k].position

C11_Witness ==
    /\ OnlyZeroTicks
    /\ steps = MaxSteps
    /\ last.retarget
    /\ Len(segments) >= 3
    /\ headDirection # Vec(Scale, 0, 0)
    /\ segments[1].tangent # Vec(Scale, 0, 0)

\* C12: a tick moves the head by headSpeed * deltaTime along the heading the
\* tick's blend and renormalization produced.
C12_EulerStep ==
    Ticked =>
        VSub(segments[1].position, last.before[1].position)
            = VScale(headDirection, Mul(cfg.headSpeed, last.deltaTime))

C12_Witness ==
    /\ Ticked
    /\ last.deltaTime = Scale
    /\ ~last.retarget
    /\ headDirection # Vec(Scale, 0, 0)
    /\ headDirection # targetDirection
    /\ segments[1].position # last.before[1].position

\* the last call was a setPosition that ran to its end
Positioned == last.op = "setPosition" /\ ~threw

\* C13: setPosition(p) puts the head at p and moves every segment by the same
\* offset, p minus the head's previous position; tangents are kept.
C13_RigidTranslation ==
    Positioned =>
        /\ segments[1].position \in Positions
        /\ Len(segments) = Len(last.before)
        /\ \A k \in 1..Len(segments) :
               /\ VSub(segments[k].position, last.before[k].position)
                      = VSub(segments[1].position, last.before[1].position)
               /\ segments[k].tangent = last.before[k].tangent

C13_Witness ==
    /\ Positioned
    /\ Len(segments) >= 3
    /\ segments[1].position \in Positions
    /\ last.before[1].position \notin Positions
    /\ last.before[1].position # Zero3
    /\ segments[2].tangent # Vec(Scale, 0, 0)

\* x is a number in [-1, 1]
InUnitRange(x) == x # NaN /\ -Scale <= x /\ x <= Scale

\* C14: every ring's friction coefficient lies in [-1, 1] in every reachable
\* state, for every segment count, a chain of one segment included.
C14_FrictionInRange ==
    variant = "instanced" => \A k \in 1..Len(rings) : InUnitRange(rings[k].frictionSpeed)

\* the segment ring k sits on
SegmentOf(k) == segments[rings[k].segmentIndex + 1]

\* C15: the target position and the orientation a tick gives a ring are
\* computed from the position and tangent its segment has after that tick's
\* head step and relaxation pass.
C15_RingsReadUpdatedSpine ==
    Ticked =>
        \A k \in 1..Len(rings) :
            IF variant = "instanced"
            THEN /\ rings[k].targetPosition
                       = PulsatedPosition(SegmentOf(k), PulsationPhase(k - 1, Len(rings), time))
                 /\ mesh.matrix[k].written = frameCount
                       => mesh.matrix[k].quaternion = QuaternionFromZ(SegmentOf(k).tangent)
            ELSE /\ rings[k].position
                       = PulsatedPosition(SegmentOf(k), PulsationPhase(k - 1, Len(rings), time))
                 /\ rings[k].quaternion = QuaternionFromZ(SegmentOf(k).tangent)

C15_Witness ==
    /\ Ticked
    /\ variant = "instanced"
    /\ \E k \in 2..Len(rings) :
           /\ SegmentOf(k).position # last.before[k].position
           /\ SegmentOf(k).tangent # last.before[k].tangent
           /\ mesh.matrix[k].written = frameCount
           /\ rings[k].targetPosition
                  # PulsatedPosition(last.before[k], PulsationPhase(k - 1, Len(rings), time))
           /\ mesh.matrix[k].quaternion # QuaternionFromZ(last.before[k].tangent)

\* the fields of ring k that hold numbers
RingNumbers(k) ==
    IF variant = "instanced"
    THEN <<rings[k].frictionSpeed, rings[k].targetPosition.x, rings[k].targetPosition.y,
           rings[k].targetPosition.z, rings[k].velocity.x, mesh.matrix[k].position.x,
           mesh.color[k].h, mesh.color[k].l>>
    ELSE <<rings[k].position.x, rings[k].position.y, rings[k].position.z,
           rings[k].scale, rings[k].color.h, rings[k].color.s, rings[k].color.l>>

\* C16: with exactly one ring the progress used for it is 0, at construction
\* and in every tick, and no NaN enters the state of the ring.
C16_SingleRingProgress ==
    Len(rings) = 1 =>
        /\ Progress(0, Len(rings)) = 0
        /\ \A j \in 1..Len(RingNumbers(1)) : RingNumbers(1)[j] # NaN

\* C17: every numeric field the caller supplies at construction is the value
\* the worm uses, 0 included; a default replaces an omitted field only.
C17_ParamsAsSupplied ==
    variant \in Variants =>
        \A f \in DOMAIN wormParams : wormParams[f] # Undefined => cfg[f] = wormParams[f]

\* C18: a trailing segment that is no farther from its leader than
\* segmentSpacing when the loop reaches it keeps its position.
C18_NoPush ==
    \A k \in Followers : ~Stretched(k) => segments[k].position = last.before[k].position

C18_Witness ==
    /\ Ticked
    /\ last.deltaTime > 0
    /\ segments[1].position # last.before[1].position
    /\ \E k \in Followers :
           /\ ~Stretched(k)
           /\ PreSq(k) < cfg.segmentSpacing * cfg.segmentSpacing
           /\ segments[k].tangent # last.before[k].tangent

\* C19: a tick picks a new target exactly if currentTime - lastDirectionChange
\* > directionChangeInterval, and then sets lastDirectionChange to currentTime;
\* any other tick keeps targetDirection and lastDirectionChange; every tick
\* blends the heading toward the target and renormalizes it.
C19_RetargetTiming ==
    [][last'.op = "update" =>
          /\ last'.retarget = (clock' - lastDirectionChange > cfg.directionChangeInterval)
          /\ IF clock' - lastDirectionChange > cfg.directionChangeInterval
             THEN /\ lastDirectionChange' = clock'
                  /\ \E ry \in YawRandoms, rp \in PitchRandoms :
                         targetDirection' = pickNewDirection(ry, rp)
             ELSE /\ lastDirectionChange' = lastDirectionChange
                  /\ targetDirection' = targetDirection
          /\ headDirection'
                 = VNormalize(VLerp(headDirection, targetDirection', cfg.turnInertia))]_vars

C19_Witness ==
    /\ last.op = "update"
    /\ ~last.retarget
    /\ clock - lastDirectionChange = cfg.directionChangeInterval
    /\ lastDirectionChange > 0
    /\ headDirection # targetDirection
    /\ headDirection # Vec(Scale, 0, 0)

\* the heading before the last tick: the tangent the head carried into it
HeadingBefore == last.before[1].tangent

\* C20: a retarget rotates the current heading by the sampled yaw and pitch,
\* so with the same samples the target picked at another heading differs from
\* the target picked at the initial heading (1, 0, 0).
C20_TargetFollowsHeading ==
    (Ticked /\ last.retarget /\ HeadingBefore # Vec(Scale, 0, 0))
        => targetDirection # pickNewDirection(last.random[1], last.random[2])

\* the worm is as the constructor left it
Constructed == last.op = "new"

\* C21: construction creates floor(totalLength / segmentSpacing) segments on
\* one straight axis, segment i at distance i * segmentSpacing behind the head
\* (index 0), all tangents the same unit vector, which is also the initial
\* heading and the initial target direction.
C21_InitialLayout ==
    Constructed =>
        /\ Len(segments) = cfg.totalLength \div cfg.segmentSpacing
        /\ IsUnit(headDirection)
        /\ targetDirection = headDirection
        /\ \A k \in 1..Len(segments) :
              /\ segments[k].tangent = headDirection
              /\ segments[k].position
                    = VSub(segments[1].position,
                           VScale(headDirection, (k - 1) * cfg.segmentSpacing))

C21_Witness ==
    /\ Constructed
    /\ Len(segments) = 3
    /\ segments[3].position = Vec(-2400, 0, 0)
    /\ segments[3].tangent = Vec(Scale, 0, 0)

\* C22: on every tick of Worm.ts every ring's transform (position, rotation
\* from the tangent of its segment, uniform scale) is recomputed and written to
\* the instance buffer at the ring's index; in particular the rotation of a ring
\* whose segment's tangent changed in the tick is the rotation of the new tangent.
C22_TransformsWritten ==
    (Ticked /\ variant = "instanced") =>
        \A k \in 1..Len(rings) :
            /\ mesh.matrix[k].written = frameCount
            /\ SegmentOf(k).tangent # last.before[rings[k].segmentIndex + 1].tangent
                  => mesh.matrix[k].quaternion = QuaternionFromZ(SegmentOf(k).tangent)

\* what the rounding of a normalized blend of nearly opposite vectors can add
\* to a component, a product or a squared length
Slack == Scale \div 20

\* a and b are equal up to the rounding of their components
Near(a, b) ==
    /\ ~VHasNaN(a) /\ ~VHasNaN(b)
    /\ Abs(a.x - b.x) <= Slack /\ Abs(a.y - b.y) <= Slack /\ Abs(a.z - b.z) <= Slack

\* v has length 1, up to the rounding of a normalized blend
UnitLength(v) == ~VHasNaN(v) /\ Abs(LengthSq(v) - Scale * Scale) <= Slack * Scale

\* tangent, normal and binormal are unit vectors, pairwise orthogonal, with
\* tangent x normal = binormal
RightHanded(seg) ==
    /\ UnitLength(seg.tangent) /\ UnitLength(seg.normal) /\ UnitLength(seg.binormal)
    /\ Abs(VDot(seg.tangent, seg.normal)) <= Slack
    /\ Abs(VDot(seg.tangent, seg.binormal)) <= Slack
    /\ Abs(VDot(seg.normal, seg.binormal)) <= Slack
    /\ Near(VCross(seg.tangent, seg.normal), seg.binormal)

Responsiveness(frictionSpeed) == Add(50, Mul(Add(frictionSpeed, Scale), 100))

\* the velocity the damped approach gives a ring whose rendered position is at
\* rendered and whose target is at target
Damped(velocity, frictionSpeed, target, rendered) ==
    VScale(VAdd(velocity, VScale(VSub(target, rendered), Responsiveness(frictionSpeed))), 850)

\* C25: on every tick of Worm.ts, for every ring, the velocity becomes
\* (velocity + responsiveness * (targetPosition - renderedPosition)) * 0.85 with
\* responsiveness = 0.05 + (frictionSpeed + 1) * 0.1, and the rendered position
\* becomes the old rendered position plus the new velocity.
C25_DampedApproach ==
    [][(last'.op = "update" /\ ~threw' /\ variant = "instanced") =>
          \A k \in 1..Len(rings) :
              /\ rings'[k].velocity
                    = Damped(rings[k].velocity, rings[k].frictionSpeed,
                             rings'[k].targetPosition, mesh.matrix[k].position)
              /\ mesh'.matrix[k].position
                    = VAdd(mesh.matrix[k].position, rings'[k].velocity)]_vars

\* distance of segment k to its leader when the loop left it, rounded to the
\* resolution of the model
PostDistance(k) == VLength(VSub(segments[k - 1].position, segments[k].position))

\* C26: a segment that is pulled toward its leader in a tick is moved by less
\* than its excess distance: when the loop leaves it, it is still at least
\* segmentSpacing away from its leader.
C26_NoOvershoot ==
    \A k \in Followers : Stretched(k) => PostDistance(k) >= cfg.segmentSpacing

C26_Witness ==
    /\ Ticked
    /\ \E k \in Followers :
           /\ Stretched(k)
           /\ segments[k].position # last.before[k].position
           /\ PostSq(k) < PreSq(k)
           /\ PostDistance(k) > cfg.segmentSpacing + 100

\* every call so far was a tick of Worm.ts, and none of them picked a new target
StraightRun ==
    /\ variant = "instanced"
    /\ frameCount = steps
    /\ lastDirectionChange = 0
    /\ ~threw

\* C27: as long as a freshly built worm is only ticked, no tick picks a new
\* target and headSpeed * deltaTime >= 0, all segments stay on the initial axis
\* in their head-to-tail order, and consecutive segments are at least
\* segmentSpacing apart.
C27_StraightLine ==
    StraightRun =>
        /\ headDirection = Vec(Scale, 0, 0)
        /\ \A k \in 1..Len(segments) :
              segments[k].position.y = 0 /\ segments[k].position.z = 0
        /\ \A k \in 2..Len(segments) :
              segments[k - 1].position.x - segments[k].position.x >= cfg.segmentSpacing

C27_Witness ==
    /\ StraightRun
    /\ steps = 3
    /\ Len(segments) = 3
    /\ segments[1].position.x >= 6 * Scale
    /\ segments[3].position.x > -2400
    /\ segments[2].position.x - segments[3].position.x > cfg.segmentSpacing

\* ring k (1-based) is as it was, except perhaps for its friction speed
SameButFriction(k) ==
    rings'[k] = [rings[k] EXCEPT !.frictionSpeed = rings'[k].frictionSpeed]

\* C29: setRingFrictionSpeed(index, v) with index < 0 or index >= ring count
\* changes nothing and raises no error; with a valid index it changes the
\* friction speed of that ring only: the other rings, every velocity and target
\* position, the spine and the mesh are as before.
C29_FrictionFrame ==
    [][last'.op = "setRingFrictionSpeed" =>
          /\ ~threw'
          /\ UNCHANGED <<segments, mesh, headDirection, targetDirection,
                         lastDirectionChange, time, frameCount, cfg>>
          /\ IF last'.args[1] < 0 \/ last'.args[1] >= Len(rings)
             THEN rings' = rings
             ELSE /\ Len(rings') = Len(rings)
                  /\ \A k \in 1..Len(rings) :
                        IF k = last'.args[1] + 1 THEN SameButFriction(k)
                        ELSE rings'[k] = rings[k]]_vars

C29_Witness ==
    /\ last.op = "setRingFrictionSpeed"
    /\ steps = 3
    /\ Len(rings) = 3
    /\ last.args[1] = 3
    /\ rings[1].frictionSpeed = -Scale
    /\ rings[1].velocity # Zero3
    /\ rings[2].frictionSpeed # -Scale

\* a call with a height strictly between the first and the last key height
BetweenEnds == ppc = "radius" /\ Len(keys) > 0 /\ keys[1].h < h /\ h < Last(keys).h

\* C30: for every non-empty key list, sorted or not, and every height strictly
\* between the first and the last key height, the scan of radiusFromKeys finds
\* a consecutive pair, the first pair it finds has a.h < h <= b.h, so that
\* b.h - a.h is not zero and t lies in (0, 1], and the result is the blend over
\* that pair, never the fallback after the loop.
C30_ScanFindsPair ==
    BetweenEnds =>
        LET i == FirstBracket(keys, h)
        IN  /\ i > 0
            /\ keys[i].h < h
            /\ h <= keys[i + 1].h
            /\ keys[i + 1].h - keys[i].h > 0
            /\ h - keys[i].h <= keys[i + 1].h - keys[i].h
            /\ out = ApplyFdR(fdR, keys[i].r, keys[i + 1].r,
                              FDiv(h - keys[i].h, keys[i + 1].h - keys[i].h))

C30_Witness ==
    /\ BetweenEnds
    /\ ~IsSorted(keys)
    /\ FirstBracket(keys, h) = 2
    /\ keys[1].h = keys[2].h
    /\ keys[3].h > Last(keys).h
    /\ out # Last(keys).r
    /\ out # keys[1].r

-----------------------------------------------------------------------------
(* Properties of the line worm *)

LineTicked == lineLast.op = "update"

\* the segments that follow: all but the steering end
LineFollowers == 1..(Len(segmentPositions) - 1)

\* the vector from follower i, before its move, to its neighbour after the neighbour's move
ToNeighbour(i) == VSub(segmentPositions[i + 1], lineLast.positionsBefore[i])

\* the vector that update() normalizes into the direction of follower i
FollowBlend(i) ==
    VLerp(lineLast.dirsBefore[i], FollowMove(ToNeighbour(i), SegLength(lineParams)), 500)

\* C23: in body relaxation a segment within 0.001 of its leader keeps its
\* direction for that tick, and no zero-length vector is normalized into a
\* segment's direction
C23_NearZeroGuard ==
    LineTicked =>
        \A i \in LineFollowers :
            /\ VLength(ToNeighbour(i)) <= 1 => segmentDirs[i] = lineLast.dirsBefore[i]
            /\ FollowBlend(i) # Zero3

\* the distance between segment i and segment i + 1
LinkLength(i) == VLength(VSub(segmentPositions[i + 1], segmentPositions[i]))

\* C28: after every update of the line worm each follower that was not on its
\* neighbour when it was processed is at the distance totalLength / (segmentCount - 1)
\* from its neighbour, and it was moved along the vector to its neighbour's
\* updated position. The numbers are rounded to 0.001: the unit vector of the
\* move is off by less than 0.001 and is scaled by at most speed * dt = 2.2, so
\* the distance is compared within 0.004
C28_RigidFollow ==
    LineTicked =>
        \A i \in LineFollowers :
            ToNeighbour(i) # Zero3 =>
                /\ Abs(LinkLength(i) - SegLength(lineParams)) <= 4
                /\ segmentPositions[i] =
                       VAdd(lineLast.positionsBefore[i],
                            FollowMove(ToNeighbour(i), SegLength(lineParams)))

\* an update in which the steering end has turned off the Z axis and moved, every
\* follower was moved, the first toward a neighbour that had itself moved,
\* and one of them was closer to its neighbour than a link is long
C28_Witness ==
    /\ LineTicked
    /\ lineLast.dt > 0
    /\ segmentDirs[Len(segmentDirs)].x # 0
    /\ \A i \in LineFollowers : segmentPositions[i] # lineLast.positionsBefore[i]
    /\ \E i \in LineFollowers : VLength(ToNeighbour(i)) < SegLength(lineParams)

====
